---- MODULE Spec2Model ----
(***************************************************************************)
(* TSPA - TypeScript Persistence API.                                      *)
(* One CRUD contract over three backends: MongoCrudRepository (document    *)
(* database), FirestoreCrudRepository (cloud document store) and           *)
(* LocalStorageCrudRepository (local key-value store).                     *)
(*                                                                         *)
(* An entity is a JavaScript object: a function from the names of the      *)
(* fields that are present to their values.  A missing field is a name     *)
(* outside DOMAIN.  The object spread {...a, ...b} is  b @@ a.             *)
(* Ids are numbers (1, 2 supplied by callers, larger ones generated): the  *)
(* order of the numbers stands for the order of document names.            *)
(***************************************************************************)
EXTENDS Integers, Sequences, FiniteSets, TLC

VARIABLES adapter, store, now, generated, steps, last, tx, inflight, statics,
          mirror, listening

vars == <<adapter, store, now, generated, steps, last, tx, inflight, statics,
          mirror, listening>>

\* ------------------------------------------------------------------ bounds
MaxOps == 3
MaxBatch == 2
MaxBody == 2
MaxCallers == 2

\* --------------------------------------------------------------- the inputs
Adapters == {"mongo", "firestore", "local"}

Ids == {1, 2}

\* the object {}
Empty == [f \in {} |-> 0]

IdParts == {Empty} \cup {[id |-> i] : i \in Ids}

\* fields a caller may put on the entity handed to create
PayloadExtras ==
  {Empty, [version |-> 1], [deleted |-> TRUE], [dateCreated |-> 1]}

Payloads == {i @@ x @@ [name |-> "x"] : i \in IdParts, x \in PayloadExtras}

BatchPayloads == {i @@ [name |-> "x"] : i \in IdParts}

Batches == UNION {[1..n -> BatchPayloads] : n \in 0..MaxBatch}

\* Partial<T>: the second argument of update
Partials ==
  {Empty, [name |-> "y"], [version |-> 1], [version |-> 2],
   [deleted |-> TRUE], [dateCreated |-> 1]} \cup {[id |-> i] : i \in Ids}

\* QueryOptions: undefined, or an object with some of its optional members
Undefined == [undefined |-> TRUE]

UpdateOptions == {Undefined, [locking |-> "optimistic"]}

RemoveOptions ==
  {Undefined, [softDelete |-> TRUE], [softDelete |-> FALSE],
   [locking |-> "optimistic"]}

\* ------------------------------------------------------- utils/common-utils
Has(o, f) == f \in DOMAIN o

\* isEmpty of a field: undefined, or the number 0
isEmpty(o, f) == IF Has(o, f) THEN o[f] = 0 ELSE TRUE

\* generate(): a fresh identifier, the n-th one of the run
FirstGenerated == 100

generate(n) == FirstGenerated + n

\* ------------------------------------------------------- utils/entity-utils
getNextVersion(o) == IF Has(o, "version") THEN o.version + 1 ELSE 1

updatePayload(payload, t) ==
  [version |-> getNextVersion(payload),
   dateCreated |-> IF isEmpty(payload, "dateCreated") THEN t
                   ELSE payload.dateCreated,
   dateUpdated |-> t,
   deleted |-> IF Has(payload, "deleted") THEN payload.deleted ELSE FALSE]
  @@ payload

markAsDeleted(payload, t) == [deleted |-> TRUE, dateDeleted |-> t] @@ payload

\* unique with a fresh key for every item, as if the key field were never read
uniqueByPosition(list) == {0 - i : i \in DOMAIN list}

\* unique(list, ['id']): one entry per key; the key of an item is its id, or
\* a freshly generated key (here -i, unlike every id) when the id is falsy
unique(list) ==
  {IF isEmpty(list[i], "id") THEN 0 - i ELSE list[i].id : i \in DOMAIN list}

\* checkForDuplicates: TRUE when the InvalidRequestException is thrown
checkForDuplicates(list) == Cardinality(unique(list)) # Len(list)

\* payload.filter(entity => !isEmpty(entity.id))
entitiesWithIds(payload) == SelectSeq(payload, LAMBDA e : ~isEmpty(e, "id"))

\* ------------------------------------------------------------ the backend
\* A backend collection is a sequence of entries [key, doc] in insertion
\* order: the properties of the JSON blob (local), the documents by _id
\* (mongo), the documents by document name (firestore).
keyIndex(s, k) ==
  IF \E i \in DOMAIN s : s[i].key = k
  THEN CHOOSE i \in DOMAIN s : s[i].key = k
  ELSE 0

\* object[k] = d : an existing property keeps its place, a new one is last
put(s, k, d) ==
  IF keyIndex(s, k) # 0
  THEN [s EXCEPT ![keyIndex(s, k)] = [key |-> k, doc |-> d]]
  ELSE Append(s, [key |-> k, doc |-> d])

\* delete object[k]
delete(s, k) == SelectSeq(s, LAMBDA e : e.key # k)

\* what a call leaves and answers, with the backend reads and writes it issued
Outcome(s, r, ret, rd, wr) ==
  [store |-> s, result |-> r, returned |-> ret, reads |-> rd, writes |-> wr]

\* the comparison made only when the payload carries a version
versionMismatchWhenGiven(record, payload) ==
  Has(payload, "version") /\ record.version # payload.version

\* record.version !== payload.version
versionMismatch(record, payload) ==
  IF Has(payload, "version") THEN record.version # payload.version ELSE TRUE

isOptimistic(queryOptions) ==
  Has(queryOptions, "locking") /\ queryOptions.locking = "optimistic"

\* remove(id, queryOptions = {deletionOptions: {softDelete: true}}) followed
\* by the test  queryOptions.deletionOptions?.softDelete
isSoftDelete(queryOptions) ==
  IF Has(queryOptions, "undefined") THEN TRUE
  ELSE Has(queryOptions, "softDelete") /\ queryOptions.softDelete

\* the i-th entry of a batch that carries no id gets the next generated id
generatedBefore(payload, i) ==
  Cardinality({j \in 1..(i - 1) : isEmpty(payload[j], "id")})

batchId(payload, i, g) ==
  IF isEmpty(payload[i], "id")
  THEN generate(g + generatedBefore(payload, i) + 1)
  ELSE payload[i].id

\* a set of indexes as a sequence, in ascending order
RECURSIVE ascending(_)
ascending(S) ==
  IF S = {} THEN <<>>
  ELSE LET m == CHOOSE x \in S : \A y \in S : x <= y
       IN <<m>> \o ascending(S \ {m})

\* ------------------------------------------- LocalStorageCrudRepository
getActiveKey(id) == <<id, FALSE>>

getInactiveKey(id) == <<id, TRUE>>

\* jsonValue[this.getActiveKey(id)]: where findById finds the record, or 0
LocalFindIndex(s, id) == keyIndex(s, getActiveKey(id))

LocalFindById(s, id) ==
  IF LocalFindIndex(s, id) = 0 THEN <<>> ELSE <<s[LocalFindIndex(s, id)].doc>>

\* the lookup made under the inactive key
LocalCheckDuplicateIdInactive(s, id) == keyIndex(s, getInactiveKey(id)) # 0

\* checkDuplicateId: TRUE when the DuplicateRecordException is thrown
LocalCheckDuplicateId(s, id) == LocalFindById(s, id) # <<>>

LocalItem(payload, id, t) == [id |-> id] @@ updatePayload(payload, t)

LocalCreate(s, payload, g, t) ==
  IF isEmpty(payload, "id")
  THEN LET item == LocalItem(payload, generate(g + 1), t)
       IN Outcome(put(s, getActiveKey(item.id), item), "ok", <<item>>, 1, 1)
  ELSE IF LocalCheckDuplicateId(s, payload.id)
       THEN Outcome(s, "duplicate-record", <<>>, 1, 0)
       ELSE LET item == LocalItem(payload, payload.id, t)
            IN Outcome(put(s, getActiveKey(item.id), item), "ok", <<item>>, 2, 1)

\* the creates of a batch write one after the other, each a whole
\* getItem .. setItem block
RECURSIVE LocalWriteAll(_, _, _, _, _)
LocalWriteAll(s, payload, order, g, t) ==
  IF order = <<>> THEN s
  ELSE LET i == Head(order)
           item == LocalItem(payload[i], batchId(payload, i, g), t)
       IN LocalWriteAll(put(s, getActiveKey(item.id), item), payload,
                        Tail(order), g, t)

\* createAll starts every create at once.  Each create looks its id up
\* before the first write of the batch; a create without id resumes after
\* one await, a create with an id after the three awaits of getId,
\* checkDuplicateId and findById, so the entries without id write first.
\* A rejected create does not stop the others.
LocalCreateAll(s, payload, g, t) ==
  IF Len(payload) = 0 THEN Outcome(s, "ok", <<>>, 0, 0)
  ELSE IF checkForDuplicates(entitiesWithIds(payload))
  THEN Outcome(s, "invalid-request", <<>>, 0, 0)
  ELSE LET rejected(i) == ~isEmpty(payload[i], "id")
                          /\ LocalCheckDuplicateId(s, payload[i].id)
           withoutId(i) == isEmpty(payload[i], "id")
           withId(i) == ~isEmpty(payload[i], "id") /\ ~rejected(i)
           order == ascending({i \in DOMAIN payload : withoutId(i)})
                    \o ascending({i \in DOMAIN payload : withId(i)})
           written == LocalWriteAll(s, payload, order, g, t)
       IN IF \E i \in DOMAIN payload : rejected(i)
          THEN Outcome(written, "duplicate-record", <<>>, Len(entitiesWithIds(payload)) + Len(order), Len(order))
          ELSE Outcome(written, "ok",
                       [i \in DOMAIN payload |->
                          LocalItem(payload[i], batchId(payload, i, g), t)],
                       Len(entitiesWithIds(payload)) + Len(order), Len(order))

LocalPerformUpdate(s, payload, t) ==
  LET updated == updatePayload(payload, t)
  IN Outcome(put(s, getActiveKey(updated.id), updated), "ok", <<>>, 1, 1)

LocalUpdate(s, id, payload, queryOptions, t) ==
  IF LocalFindIndex(s, id) = 0
  THEN Outcome(s, "record-not-found", <<>>, 1, 0)
  ELSE LET record == s[LocalFindIndex(s, id)].doc
       IN IF isOptimistic(queryOptions) /\ versionMismatch(record, payload)
          THEN Outcome(s, "optimistic-lock", <<>>, 1, 0)
          ELSE LocalPerformUpdate(s, payload @@ record, t)

LocalSoftDelete(s, record, t) ==
  LET removed == delete(s, getActiveKey(record.id))
      marked == updatePayload(markAsDeleted(record, t), t)
  IN Outcome(put(removed, getInactiveKey(record.id), marked), "ok", <<>>, 1, 1)

LocalHardDelete(s, key) == Outcome(delete(s, key), "ok", <<>>, 1, 1)

LocalRemove(s, id, queryOptions, t) ==
  IF LocalFindIndex(s, id) = 0
  THEN Outcome(s, "record-not-found", <<>>, 1, 0)
  ELSE LET record == s[LocalFindIndex(s, id)].doc
       IN IF isSoftDelete(queryOptions)
          THEN LocalSoftDelete(s, record, t)
          ELSE LocalHardDelete(s, getActiveKey(id))

\* ------------------------------------------------- MongoCrudRepository
\* findOne({deleted: {$ne: true}, id: {$eq: id}}): the first document, in the
\* collection's natural order, that matches
MongoMatches(s, id) ==
  {i \in DOMAIN s : Has(s[i].doc, "id") /\ s[i].doc.id = id
                     /\ ~(Has(s[i].doc, "deleted") /\ s[i].doc.deleted = TRUE)}

MongoFindIndex(s, id) ==
  IF MongoMatches(s, id) = {} THEN 0
  ELSE CHOOSE i \in MongoMatches(s, id) :
         \A j \in MongoMatches(s, id) : i <= j

MongoFindById(s, id) ==
  IF MongoFindIndex(s, id) = 0 THEN <<>> ELSE <<s[MongoFindIndex(s, id)].doc>>

MongoCheckDuplicateId(s, id) == MongoFindById(s, id) # <<>>

\* { ...payload, id, _id: id } of a payload that went through updatePayload
MongoItem(payload, id, t) ==
  ("_id" :> id) @@ [id |-> id] @@ updatePayload(payload, t)

\* save() / insertMany(): documents are inserted in order; the insert of an
\* _id the collection already holds fails (E11000) and ends the call, the
\* documents inserted before it stay
RECURSIVE MongoInsertMany(_, _)
MongoInsertMany(s, docs) ==
  IF docs = <<>> THEN Outcome(s, "ok", <<>>, 0, 1)
  ELSE IF keyIndex(s, Head(docs)["_id"]) # 0 THEN Outcome(s, "internal", <<>>, 0, 1)
  ELSE MongoInsertMany(put(s, Head(docs)["_id"], Head(docs)), Tail(docs))

MongoCreate(s, payload, g, t) ==
  IF ~isEmpty(payload, "id") /\ MongoCheckDuplicateId(s, payload.id)
  THEN Outcome(s, "duplicate-record", <<>>, 1, 0)
  ELSE LET id == IF isEmpty(payload, "id") THEN generate(g + 1)
                 ELSE payload.id
           entity == MongoItem(payload, id, t)
           saved == MongoInsertMany(s, <<entity>>)
           looked == IF isEmpty(payload, "id") THEN 0 ELSE 1
       IN IF saved.result = "ok"
          THEN Outcome(saved.store, "ok", <<entity>>, looked, 1)
          ELSE Outcome(saved.store, saved.result, <<>>, looked, 1)

MongoCreateAll(s, payload, g, t) ==
  IF Len(payload) = 0 THEN Outcome(s, "ok", <<>>, 0, 0)
  ELSE IF checkForDuplicates(entitiesWithIds(payload))
  THEN Outcome(s, "invalid-request", <<>>, 0, 0)
  ELSE IF \E i \in DOMAIN payload :
            ~isEmpty(payload[i], "id")
            /\ MongoCheckDuplicateId(s, payload[i].id)
  THEN Outcome(s, "duplicate-record", <<>>, Len(entitiesWithIds(payload)), 0)
  ELSE LET newPayload == [i \in DOMAIN payload |->
                            MongoItem(payload[i], batchId(payload, i, g), t)]
           inserted == MongoInsertMany(s, newPayload)
       IN IF inserted.result = "ok"
          THEN Outcome(inserted.store, "ok", newPayload, Len(entitiesWithIds(payload)), 1)
          ELSE Outcome(inserted.store, inserted.result, <<>>, Len(entitiesWithIds(payload)), 1)

\* new EntityModel(record).updateOne(updatedRecord): $set of every field of
\* updatedRecord on the document whose _id is record._id
MongoPerformUpdate(s, record, payload, markDeleted, t) ==
  LET stamped == updatePayload(payload @@ record, t)
      updatedRecord == IF markDeleted THEN markAsDeleted(stamped, t)
                       ELSE stamped
      at == keyIndex(s, record["_id"])
  IN Outcome(put(s, record["_id"], updatedRecord @@ s[at].doc), "ok", <<>>, 1, 1)

MongoUpdate(s, id, payload, queryOptions, t) ==
  IF MongoFindById(s, id) = <<>>
  THEN Outcome(s, "record-not-found", <<>>, 1, 0)
  ELSE LET record == MongoFindById(s, id)[1]
       IN IF isOptimistic(queryOptions) /\ versionMismatch(record, payload)
          THEN Outcome(s, "optimistic-lock", <<>>, 1, 0)
          ELSE MongoPerformUpdate(s, record, payload, FALSE, t)

\* deleteOne({deleted: {$ne: true}, id: {$eq: id}}); the call returns
\* result.deletedCount === 1
MongoHardDelete(s, id) ==
  IF MongoFindIndex(s, id) = 0 THEN Outcome(s, "false", <<>>, 1, 1)
  ELSE Outcome(delete(s, s[MongoFindIndex(s, id)].key), "ok", <<>>, 1, 1)

MongoRemove(s, id, queryOptions, t) ==
  IF MongoFindById(s, id) = <<>>
  THEN Outcome(s, "record-not-found", <<>>, 1, 0)
  ELSE LET record == MongoFindById(s, id)[1]
       IN IF isSoftDelete(queryOptions)
          THEN MongoPerformUpdate(s, record, record, TRUE, t)
          ELSE MongoHardDelete(s, id)

\* --------------------------------------------- FirestoreCrudRepository
\* query(where('id', '==', id), where('deleted', '!=', true)): the matching
\* documents ordered by the field of the inequality, then by document name
FirestoreMatches(s, id) ==
  {i \in DOMAIN s : Has(s[i].doc, "id") /\ s[i].doc.id = id
                     /\ Has(s[i].doc, "deleted") /\ s[i].doc.deleted # TRUE}

FirestoreFindIndex(s, id) ==
  IF FirestoreMatches(s, id) = {} THEN 0
  ELSE CHOOSE i \in FirestoreMatches(s, id) :
         \A j \in FirestoreMatches(s, id) : s[i].key <= s[j].key

\* record.docs[0].data()
FirestoreFindById(s, id) ==
  IF FirestoreFindIndex(s, id) = 0 THEN <<>>
  ELSE <<s[FirestoreFindIndex(s, id)].doc>>

FirestoreCheckDuplicateId(s, id) == FirestoreFindById(s, id) # <<>>

\* payload.id = id  on a payload that went through updatePayload
FirestoreItem(payload, id, t) == [id |-> id] @@ updatePayload(payload, t)

\* setDoc(documentReference, payload): the document is replaced
FirestoreCreate(s, payload, g, t) ==
  IF ~isEmpty(payload, "id") /\ FirestoreCheckDuplicateId(s, payload.id)
  THEN Outcome(s, "duplicate-record", <<>>, 1, 0)
  ELSE LET id == IF isEmpty(payload, "id") THEN generate(g + 1)
                 ELSE payload.id
           entity == FirestoreItem(payload, id, t)
       IN Outcome(put(s, id, entity), "ok", <<entity>>,
                  IF isEmpty(payload, "id") THEN 0 ELSE 1, 1)

\* batch.commit(): the sets of the batch, applied together
RECURSIVE FirestoreCommit(_, _)
FirestoreCommit(s, sets) ==
  IF sets = <<>> THEN s
  ELSE FirestoreCommit(put(s, Head(sets).id, Head(sets)), Tail(sets))

\* createAll with setDoc in place of batch.set: every entry that passes its
\* own check is written at once
FirestoreCreateAllUnbatched(s, payload, g, t) ==
  LET rejected(i) == ~isEmpty(payload[i], "id")
                     /\ FirestoreCheckDuplicateId(s, payload[i].id)
      kept == ascending({i \in DOMAIN payload : ~rejected(i)})
      sets == [k \in DOMAIN kept |->
                 FirestoreItem(payload[kept[k]],
                               batchId(payload, kept[k], g), t)]
  IN IF Len(payload) = 0 THEN Outcome(s, "ok", <<>>, 0, 0)
     ELSE IF checkForDuplicates(entitiesWithIds(payload))
     THEN Outcome(s, "invalid-request", <<>>, 0, 0)
     ELSE Outcome(FirestoreCommit(s, sets),
                  IF Len(kept) = Len(payload) THEN "ok"
                  ELSE "duplicate-record",
                  [i \in DOMAIN payload |-> updatePayload(payload[i], t)],
                  Len(entitiesWithIds(payload)), Len(kept))

\* createAll returns its argument: the entities as updatePayload left them
FirestoreCreateAll(s, payload, g, t) ==
  IF Len(payload) = 0 THEN Outcome(s, "ok", <<>>, 0, 0)
  ELSE IF checkForDuplicates(entitiesWithIds(payload))
  THEN Outcome(s, "invalid-request", <<>>, 0, 0)
  ELSE IF \E i \in DOMAIN payload :
            ~isEmpty(payload[i], "id")
            /\ FirestoreCheckDuplicateId(s, payload[i].id)
  THEN Outcome(s, "duplicate-record", <<>>, Len(entitiesWithIds(payload)), 0)
  ELSE LET sets == [i \in DOMAIN payload |->
                      FirestoreItem(payload[i], batchId(payload, i, g), t)]
       IN Outcome(FirestoreCommit(s, sets), "ok",
                  [i \in DOMAIN payload |-> updatePayload(payload[i], t)],
                  Len(entitiesWithIds(payload)), 1)

\* updatePayload(record); updateDoc(doc(collection, record.id),
\* {...record, ...payload}): the fields are merged into the document named
\* record.id, which must exist
FirestorePerformUpdate(s, record, payload, t) ==
  LET data == payload @@ updatePayload(record, t)
      at == keyIndex(s, record.id)
  IN IF at = 0 THEN Outcome(s, "internal", <<>>, 1, 1)
     ELSE Outcome(put(s, record.id, data @@ s[at].doc), "ok", <<>>, 1, 1)

FirestoreUpdate(s, id, payload, queryOptions, t) ==
  IF FirestoreFindById(s, id) = <<>>
  THEN Outcome(s, "record-not-found", <<>>, 1, 0)
  ELSE LET record == FirestoreFindById(s, id)[1]
       IN IF isOptimistic(queryOptions) /\ versionMismatch(record, payload)
          THEN Outcome(s, "optimistic-lock", <<>>, 1, 0)
          ELSE FirestorePerformUpdate(s, record, payload, t)

\* markAsDeleted(record); performUpdate(record, record): record and payload
\* are one object, so the spread is the stamped record itself
FirestoreSoftDelete(s, record, t) ==
  LET marked == markAsDeleted(record, t)
      at == keyIndex(s, marked.id)
  IN IF at = 0 THEN Outcome(s, "internal", <<>>, 1, 1)
     ELSE Outcome(put(s, marked.id, updatePayload(marked, t) @@ s[at].doc),
                  "ok", <<>>, 1, 1)

\* deleteDoc(doc(collection, id)); deleting a missing document succeeds
FirestoreHardDelete(s, id) == Outcome(delete(s, id), "ok", <<>>, 1, 1)

FirestoreRemove(s, id, queryOptions, t) ==
  IF FirestoreFindById(s, id) = <<>>
  THEN Outcome(s, "record-not-found", <<>>, 1, 0)
  ELSE LET record == FirestoreFindById(s, id)[1]
       IN IF isSoftDelete(queryOptions)
          THEN FirestoreSoftDelete(s, record, t)
          ELSE FirestoreHardDelete(s, record.id)

\* ------------------------------------------------------ the state machine
\* generate() calls made by a createAll
generatedBy(payload) == generatedBefore(payload, Len(payload) + 1)

NoCall ==
  [op |-> "none", id |-> 0, payload |-> Empty, batch |-> <<>>,
   options |-> Undefined, result |-> "none", returned |-> <<>>,
   reads |-> 0, writes |-> 0, before |-> <<>>]

\* no executeTransaction is under way and no session is open
NoTransaction ==
  [pc |-> "idle", execution |-> Empty, session |-> 0, given |-> 0,
   open |-> {}, transaction |-> "none", trace |-> <<>>, calls |-> 0,
   body |-> <<>>,
   result |-> <<>>, bodyError |-> <<>>, error |-> <<>>,
   settled |-> "none", answer |-> <<>>, snapshot |-> <<>>]

\* the static members of the adapter class and of its provider before any
\* init: no configuration, no provider instance, no connection, no adapter
NotInitialized ==
  [initialized |-> FALSE, properties |-> Empty, first |-> Empty,
   provider |-> "none", connection |-> "none", models |-> {},
   instances |-> <<>>, op |-> "none", name |-> "", error |-> "none"]

\* the callers whose calls can be under way at the same time
Callers == 1 .. MaxCallers

\* a caller that has not called yet
NoPending ==
  [op |-> "none", id |-> 0, payload |-> Empty, options |-> Undefined,
   pc |-> "idle", read |-> <<>>, during |-> {}, began |-> 0, at |-> 0,
   result |-> "none"]

\* no listener is registered with onSnapshot
NotListening ==
  [on |-> FALSE, filter |-> Empty, view |-> {}, queue |-> <<>>,
   committed |-> {}, calls |-> {}]

Init ==
  /\ adapter \in Adapters
  /\ store = <<>>
  /\ now = 2
  /\ generated = 0
  /\ steps = 0
  /\ last = NoCall
  /\ tx = NoTransaction
  /\ inflight = [p \in Callers |-> NoPending]
  /\ statics = NotInitialized
  /\ mirror = <<>>
  /\ listening = NotListening

\* a call ran to its end: the backend it left, what it answered, and the
\* clock and the count of generated ids moved on
Settle(op, id, payload, batch, options, outcome, ids) ==
  /\ steps < MaxOps
  /\ store' = outcome.store
  /\ last' = [op |-> op, id |-> id, payload |-> payload, batch |-> batch,
              options |-> options, result |-> outcome.result,
              returned |-> outcome.returned, reads |-> outcome.reads,
              writes |-> outcome.writes, before |-> store]
  /\ now' = now + 1
  /\ generated' = generated + ids
  /\ steps' = steps + 1
  /\ UNCHANGED <<adapter, tx, inflight, statics, mirror, listening>>

LocalCreateCall ==
  /\ adapter = "local"
  /\ \E payload \in Payloads :
       Settle("create", 0, payload, <<>>, Undefined,
              LocalCreate(store, payload, generated, now), 1)

LocalCreateAllCall ==
  /\ adapter = "local"
  /\ \E payload \in Batches :
       Settle("createAll", 0, Empty, payload, Undefined,
              LocalCreateAll(store, payload, generated, now),
              generatedBy(payload))

LocalUpdateCall ==
  /\ adapter = "local"
  /\ \E id \in Ids, payload \in Partials, queryOptions \in UpdateOptions :
       Settle("update", id, payload, <<>>, queryOptions,
              LocalUpdate(store, id, payload, queryOptions, now), 0)

LocalRemoveCall ==
  /\ adapter = "local"
  /\ \E id \in Ids, queryOptions \in RemoveOptions :
       Settle("remove", id, Empty, <<>>, queryOptions,
              LocalRemove(store, id, queryOptions, now), 0)

MongoCreateCall ==
  /\ adapter = "mongo"
  /\ \E payload \in Payloads :
       Settle("create", 0, payload, <<>>, Undefined,
              MongoCreate(store, payload, generated, now), 1)

MongoCreateAllCall ==
  /\ adapter = "mongo"
  /\ \E payload \in Batches :
       Settle("createAll", 0, Empty, payload, Undefined,
              MongoCreateAll(store, payload, generated, now),
              generatedBy(payload))

MongoUpdateCall ==
  /\ adapter = "mongo"
  /\ \E id \in Ids, payload \in Partials, queryOptions \in UpdateOptions :
       Settle("update", id, payload, <<>>, queryOptions,
              MongoUpdate(store, id, payload, queryOptions, now), 0)

MongoRemoveCall ==
  /\ adapter = "mongo"
  /\ \E id \in Ids, queryOptions \in RemoveOptions :
       Settle("remove", id, Empty, <<>>, queryOptions,
              MongoRemove(store, id, queryOptions, now), 0)

FirestoreCreateCall ==
  /\ adapter = "firestore"
  /\ \E payload \in Payloads :
       Settle("create", 0, payload, <<>>, Undefined,
              FirestoreCreate(store, payload, generated, now), 1)

FirestoreCreateAllCall ==
  /\ adapter = "firestore"
  /\ \E payload \in Batches :
       Settle("createAll", 0, Empty, payload, Undefined,
              FirestoreCreateAll(store, payload, generated, now),
              generatedBy(payload))

FirestoreUpdateCall ==
  /\ adapter = "firestore"
  /\ \E id \in Ids, payload \in Partials, queryOptions \in UpdateOptions :
       Settle("update", id, payload, <<>>, queryOptions,
              FirestoreUpdate(store, id, payload, queryOptions, now), 0)

FirestoreRemoveCall ==
  /\ adapter = "firestore"
  /\ \E id \in Ids, queryOptions \in RemoveOptions :
       Settle("remove", id, Empty, <<>>, queryOptions,
              FirestoreRemove(store, id, queryOptions, now), 0)

Next ==
  \/ LocalCreateCall
  \/ LocalCreateAllCall
  \/ LocalUpdateCall
  \/ LocalRemoveCall
  \/ MongoCreateCall
  \/ MongoCreateAllCall
  \/ MongoUpdateCall
  \/ MongoRemoveCall
  \/ FirestoreCreateCall
  \/ FirestoreCreateAllCall
  \/ FirestoreUpdateCall
  \/ FirestoreRemoveCall

Spec == Init /\ [][Next]_vars

\* ------------------------------------------------------------ the reads
\* findById of the adapter in use
FindIndex(s, id) ==
  CASE adapter = "local" -> LocalFindIndex(s, id)
    [] adapter = "mongo" -> MongoFindIndex(s, id)
    [] OTHER -> FirestoreFindIndex(s, id)

FindById(s, id) == IF FindIndex(s, id) = 0 THEN <<>> ELSE <<s[FindIndex(s, id)].doc>>

\* sort({deleted: -1, dateCreated: -1}) over documents that all have
\* deleted false: the latest dateCreated first, equal dates in natural order
RECURSIVE MongoSort(_, _)
MongoSort(s, S) ==
  IF S = {} THEN <<>>
  ELSE LET m == CHOOSE i \in S :
                  \A j \in S : \/ s[i].doc.dateCreated > s[j].doc.dateCreated
                                \/ /\ s[i].doc.dateCreated = s[j].doc.dateCreated
                                   /\ i <= j
       IN <<s[m].doc>> \o MongoSort(s, S \ {m})

\* findAll() -> _findAll: find({deleted: {$ne: true}}) and the sort
MongoFindAll(s) ==
  MongoSort(s, {i \in DOMAIN s :
                  ~(Has(s[i].doc, "deleted") /\ s[i].doc.deleted = TRUE)})

\* orderBy('deleted', 'desc'), orderBy('dateCreated', 'desc'), then the
\* document name in the direction of the last orderBy
RECURSIVE FirestoreSort(_, _)
FirestoreSort(s, S) ==
  IF S = {} THEN <<>>
  ELSE LET m == CHOOSE i \in S :
                  \A j \in S : \/ s[i].doc.dateCreated > s[j].doc.dateCreated
                                \/ /\ s[i].doc.dateCreated = s[j].doc.dateCreated
                                   /\ s[i].key >= s[j].key
       IN <<s[m].doc>> \o FirestoreSort(s, S \ {m})

\* findAll() -> _findAll -> _findBy({}): where('deleted', '!=', true)
FirestoreFindAll(s) ==
  FirestoreSort(s, {i \in DOMAIN s :
                      Has(s[i].doc, "deleted") /\ s[i].doc.deleted # TRUE})

\* findAll(filter = {}): items are pushed per key of the filter, and the
\* empty filter has no key
LocalFindAll(s) == SelectSeq(s, LAMBDA e : FALSE)

\* findAll() of the adapter in use
FindAll(s) ==
  CASE adapter = "local" -> LocalFindAll(s)
    [] adapter = "mongo" -> MongoFindAll(s)
    [] OTHER -> FirestoreFindAll(s)

\* the rows a backend holds
Docs(s) == {s[i].doc : i \in DOMAIN s}

\* a row with this id whose deleted flag is not true
HasNonDeleted(s, id) == \E d \in Docs(s) : d.id = id /\ d.deleted # TRUE

\* ------------------------------------------------------------ the claims
Succeeded == last.result = "ok"

UpdateCall == last.op = "update"

\* a remove that took the soft-delete branch
SoftRemoveCall == last.op = "remove" /\ isSoftDelete(last.options)

\* the record the call addressed, as findById resolved it before the call
BeforeIndex == FindIndex(last.before, last.id)

BeforeRecord == last.before[BeforeIndex].doc

\* the backend key that holds that record after the call: its own key, or,
\* for a soft delete of the local adapter, the inactive key of its id
AfterKey ==
  IF adapter = "local" /\ SoftRemoveCall THEN getInactiveKey(last.id)
  ELSE last.before[BeforeIndex].key

AfterRecord == store[keyIndex(store, AfterKey)].doc

\* C1: every successful update or soft remove leaves the stored record at
\* its version before the call plus exactly one, whatever the partial holds
C1_VersionPlusOne ==
  (UpdateCall \/ SoftRemoveCall) /\ Succeeded =>
    /\ keyIndex(store, AfterKey) # 0
    /\ AfterRecord.version = BeforeRecord.version + 1

\* an optimistic update that carried the stored version and succeeded
OptimisticUpdateAtStoredVersion ==
  /\ UpdateCall
  /\ isOptimistic(last.options)
  /\ Succeeded
  /\ Has(last.payload, "version")
  /\ last.payload.version = BeforeRecord.version

\* update(id, partial, {locking: 'optimistic'}) of the adapter in use
Update(s, id, payload, queryOptions, t) ==
  CASE adapter = "local" -> LocalUpdate(s, id, payload, queryOptions, t)
    [] adapter = "mongo" -> MongoUpdate(s, id, payload, queryOptions, t)
    [] OTHER -> FirestoreUpdate(s, id, payload, queryOptions, t)

\* C2: after an optimistic update with the stored version v succeeded, the
\* stored version is v + 1 and a further optimistic update that still
\* carries v fails with optimistic-lock and writes nothing
C2_StaleWriterRejected ==
  OptimisticUpdateAtStoredVersion =>
    /\ keyIndex(store, AfterKey) # 0
    /\ AfterRecord.version = last.payload.version + 1
    /\ LET stale == Update(store, last.id, last.payload, last.options, now)
       IN /\ stale.result = "optimistic-lock"
          /\ stale.writes = 0
          /\ stale.store = store

\* C3: an optimistic update whose partial does not carry the stored version
\* (another version or none) fails with optimistic-lock, issues no backend
\* write and leaves the backend as it was
C3_VersionMismatchRejected ==
  /\ UpdateCall
  /\ isOptimistic(last.options)
  /\ BeforeIndex # 0
  /\ \/ ~Has(last.payload, "version")
     \/ last.payload.version # BeforeRecord.version
  => /\ last.result = "optimistic-lock"
     /\ last.writes = 0
     /\ store = last.before

\* an optimistic update with a version other than the stored one was
\* rejected, and so was one without any version
C3_Witness ==
  /\ UpdateCall
  /\ isOptimistic(last.options)
  /\ BeforeIndex # 0
  /\ Has(last.payload, "version")
  /\ last.payload.version # BeforeRecord.version
  /\ last.result = "optimistic-lock"

\* a create that named an id for which the backend held a non-deleted row
CreateOfExistingId ==
  /\ last.op = "create"
  /\ ~isEmpty(last.payload, "id")
  /\ HasNonDeleted(last.before, last.payload.id)

\* C4: create with an explicit id that a non-deleted record already has
\* fails with duplicate-record, issues no write and leaves the backend as
\* it was
C4_DuplicateIdRejected ==
  CreateOfExistingId =>
    /\ last.result = "duplicate-record"
    /\ last.writes = 0
    /\ store = last.before

C4_Witness ==
  /\ CreateOfExistingId
  /\ last.result = "duplicate-record"
  /\ last.before # <<>>

\* C5: update and remove of an id that has no non-deleted record fail with
\* record-not-found and leave the backend as it was
C5_MissingIdRejected ==
  (UpdateCall \/ last.op = "remove") /\ ~HasNonDeleted(last.before, last.id)
  => /\ last.result = "record-not-found"
     /\ store = last.before

\* the options say softDelete: false in so many words
ExplicitHardDelete ==
  Has(last.options, "softDelete") /\ last.options.softDelete = FALSE

\* the addressed record is still in the backend, marked deleted by this call
KeptAndMarked ==
  \E d \in Docs(store) :
    /\ d.id = BeforeRecord.id
    /\ d.deleted = TRUE
    /\ Has(d, "dateDeleted")
    /\ d.dateDeleted = now - 1

\* the row that held the addressed record is gone
Erased == keyIndex(store, last.before[BeforeIndex].key) = 0

\* C6: a successful remove soft-deletes unless the options carry
\* softDelete: false; only then is the record erased
C6_SoftDeleteByDefault ==
  last.op = "remove" /\ Succeeded =>
    IF ExplicitHardDelete THEN Erased ELSE KeptAndMarked

\* C7: after a successful soft remove findById(id) is empty, findAll() does
\* not hold the record, and the backend keeps the row with deleted true and
\* dateDeleted set
C7_SoftDeletedHidden ==
  SoftRemoveCall /\ Succeeded =>
    /\ FindById(store, last.id) = <<>>
    /\ \A i \in DOMAIN FindAll(store) : FindAll(store)[i].id # last.id
    /\ \E d \in Docs(store) :
         d.id = last.id /\ d.deleted = TRUE /\ Has(d, "dateDeleted")

HardRemoveCall == last.op = "remove" /\ ExplicitHardDelete

\* C8: after a successful remove with softDelete: false the record is
\* erased and findById(id) stays empty while no create comes in between
C8_HardDeletePermanent ==
  [][/\ (HardRemoveCall /\ Succeeded)' =>
          (Erased /\ FindById(store, last.id) = <<>>)'
     /\ HardRemoveCall /\ Succeeded
          /\ last'.op \notin {"create", "createAll"}
        => FindById(store', last.id) = <<>>]_vars

\* a createAll in which two entries carry the same non-empty id
BatchWithRepeatedId ==
  /\ last.op = "createAll"
  /\ \E i, j \in DOMAIN last.batch :
       /\ i # j
       /\ ~isEmpty(last.batch[i], "id")
       /\ ~isEmpty(last.batch[j], "id")
       /\ last.batch[i].id = last.batch[j].id

\* C9: createAll with a repeated non-empty id fails with invalid-request
\* before any backend read or write, and the backend is as it was
C9_BatchDuplicateRejected ==
  BatchWithRepeatedId =>
    /\ last.result = "invalid-request"
    /\ last.reads = 0
    /\ last.writes = 0
    /\ store = last.before

C9_Witness ==
  /\ BatchWithRepeatedId
  /\ last.result = "invalid-request"
  /\ last.before # <<>>

\* a createAll without repeated ids, on an adapter with a native batched
\* write, in which some entry names the id of a non-deleted record
BatchWithExistingId ==
  /\ adapter \in {"mongo", "firestore"}
  /\ last.op = "createAll"
  /\ ~BatchWithRepeatedId
  /\ \E i \in DOMAIN last.batch :
       /\ ~isEmpty(last.batch[i], "id")
       /\ HasNonDeleted(last.before, last.batch[i].id)

\* C10: on the document-database and cloud-document adapters such a
\* createAll fails with duplicate-record before the bulk insert or batch
\* commit is submitted, and no entry of the batch is stored
C10_BatchAllOrNothing ==
  BatchWithExistingId =>
    /\ last.result = "duplicate-record"
    /\ last.writes = 0
    /\ store = last.before

\* the rejected batch also held an entry that could have been stored
C10_Witness ==
  /\ BatchWithExistingId
  /\ last.result = "duplicate-record"
  /\ \E i \in DOMAIN last.batch :
       \/ isEmpty(last.batch[i], "id")
       \/ ~HasNonDeleted(last.before, last.batch[i].id)

\* the backend key under which the adapter in use stores the record of an id
KeyOf(id) == IF adapter = "local" THEN getActiveKey(id) ELSE id

\* the ids on the rows of a backend
IdsOf(s) == {d.id : d \in Docs(s)}

\* C11: a successful createAll returns one entity per entry of the batch,
\* each with a non-empty id under which the entry is stored, and an entry
\* that came without id got an id no row had before
C11_CreateAllAssignsIds ==
  last.op = "createAll" /\ Succeeded =>
    /\ Len(last.returned) = Len(last.batch)
    /\ \A i \in DOMAIN last.returned :
         /\ ~isEmpty(last.returned[i], "id")
         /\ keyIndex(store, KeyOf(last.returned[i].id)) # 0
         /\ store[keyIndex(store, KeyOf(last.returned[i].id))].doc.id
              = last.returned[i].id
         /\ isEmpty(last.batch[i], "id") =>
              last.returned[i].id \notin IdsOf(last.before)

\* ------------------------------------------------- the filtered reads
\* Partial<T>: the filter of findAll and findOneBy
FindFilters ==
  {Empty, [name |-> "x"], [version |-> 1], [name |-> "x", version |-> 1],
   [deleted |-> TRUE]}

\* QueryOptions of a read: undefined, a logical operator, or a limit
FindOptions ==
  {Undefined, [logicalOperator |-> "AND"], [logicalOperator |-> "OR"],
   [logicalOperator |-> "NOR"], [limit |-> 1]}

\* !queryOptions?.logicalOperator || logicalOperator === LogicalOperator.AND
isAnd(queryOptions) ==
  Has(queryOptions, "logicalOperator") => queryOptions.logicalOperator = "AND"

\* the reads that are issued: OR and NOR come with at least one field
FindInputs ==
  {p \in (FindFilters \cup {Undefined}) \X FindOptions :
     isAnd(p[2]) \/ (p[1] # Undefined /\ p[1] # Empty)}

\* Object.keys(filter), in the order the fields were written
FieldOrder == <<"id", "name", "version", "deleted">>

keys(filter) == SelectSeq(FieldOrder, LAMBDA k : Has(filter, k))

\* {[key]: {$eq: filter[key], $exists: true}}  /  where(key, '==', value)
fieldEquals(d, filter, k) == Has(d, k) /\ d[k] = filter[k]

\* the first n of a list, the whole list when there is no n
truncate(list, queryOptions) ==
  IF Has(queryOptions, "limit") /\ queryOptions.limit # 0
     /\ queryOptions.limit < Len(list)
  THEN SubSeq(list, 1, queryOptions.limit)
  ELSE list

\* createFilterOnly spreads the field predicates over {deleted: {$ne: true}},
\* so a deleted field of the filter takes the place of that predicate;
\* createFilter conjoins {deleted: {$ne: true}} with $or / $nor of the fields
MongoCreateFilter(d, filter, queryOptions) ==
  IF isAnd(queryOptions)
  THEN /\ \A k \in DOMAIN filter : fieldEquals(d, filter, k)
       /\ Has(filter, "deleted") \/ ~(Has(d, "deleted") /\ d.deleted = TRUE)
  ELSE /\ ~(Has(d, "deleted") /\ d.deleted = TRUE)
       /\ IF queryOptions.logicalOperator = "OR"
          THEN \E k \in DOMAIN filter : fieldEquals(d, filter, k)
          ELSE ~\E k \in DOMAIN filter : fieldEquals(d, filter, k)

\* findBy: find(createFilter(filter, queryOptions)).sort({dateCreated: -1});
\* no limit is handed to the query
MongoFindBy(s, filter, queryOptions) ==
  MongoSort(s, {i \in DOMAIN s : MongoCreateFilter(s[i].doc, filter, queryOptions)})

\* findOne(createFilter(filter, queryOptions)): the first match in the
\* collection's natural order
MongoFindOneBy(s, filter, queryOptions) ==
  LET found == SelectSeq(s, LAMBDA e : MongoCreateFilter(e.doc, filter, queryOptions))
  IN IF found = <<>> THEN <<>> ELSE <<found[1].doc>>

\* createQuery: where('deleted', '!=', true) with every where(key, '==',
\* value), or and(deletion, or(...fields)) for every operator other than AND
FirestoreCreateQuery(d, filter, queryOptions) ==
  /\ Has(d, "deleted") /\ d.deleted # TRUE
  /\ IF isAnd(queryOptions)
     THEN \A k \in DOMAIN filter : fieldEquals(d, filter, k)
     ELSE \E k \in DOMAIN filter : fieldEquals(d, filter, k)

\* _findBy: getDocs(orderAndLimit(createQuery(...)))
FirestoreFindBy(s, filter, queryOptions) ==
  truncate(FirestoreSort(s, {i \in DOMAIN s :
                               FirestoreCreateQuery(s[i].doc, filter, queryOptions)}),
           queryOptions)

\* querySnapShot.docs[0].data()
FirestoreFindOneBy(s, filter, queryOptions) ==
  LET docs == FirestoreFindBy(s, filter, queryOptions)
  IN IF docs = <<>> THEN <<>> ELSE <<docs[1]>>


\* if (item.deleted) return;
LocalSkipped(item) == Has(item, "deleted") /\ item.deleted = TRUE

\* findOneBy: every record of the blob whose flag is not set and that has
\* some field equal to the filter's field of that name is assigned to result
\* in turn, so the last of them is returned; queryOptions is not read
LocalFindOneBy(s, filter, queryOptions) ==
  LET found == SelectSeq(s, LAMBDA e :
                 /\ ~LocalSkipped(e.doc)
                 /\ \E k \in DOMAIN e.doc \cap DOMAIN filter :
                      e.doc[k] = filter[k])
  IN IF found = <<>> THEN <<>> ELSE <<found[Len(found)].doc>>

\* the records pushed for the fields ks of the filter, field after field
RECURSIVE LocalPushed(_, _, _)
LocalPushed(s, filter, ks) ==
  IF ks = <<>> THEN <<>>
  ELSE LET found == SelectSeq(s, LAMBDA e :
                      /\ ~LocalSkipped(e.doc)
                      /\ fieldEquals(e.doc, filter, Head(ks)))
       IN [i \in DOMAIN found |-> found[i].doc]
          \o LocalPushed(s, filter, Tail(ks))

\* findAll(filter = {}, queryOptions): queryOptions is not read
LocalFindAllBy(s, filter, queryOptions) == LocalPushed(s, filter, keys(filter))

\* a read settles like every call and leaves the backend as it is
Read(op, id, filter, queryOptions, found) ==
  Settle(op, id, filter, <<>>, queryOptions,
         Outcome(store, "ok", found, 1, 0), 0)

LocalFindByIdCall ==
  /\ adapter = "local"
  /\ \E id \in Ids :
       Read("findById", id, Empty, Undefined, LocalFindById(store, id))

LocalFindOneByCall ==
  /\ adapter = "local"
  /\ \E p \in FindInputs :
       /\ p[1] # Undefined
       /\ Read("findOneBy", 0, p[1], p[2], LocalFindOneBy(store, p[1], p[2]))

\* findAll(filter = {}, queryOptions)
LocalFindAllCall ==
  /\ adapter = "local"
  /\ \E p \in FindInputs :
       Read("findAll", 0, p[1], p[2],
            LocalFindAllBy(store, IF p[1] = Undefined THEN Empty ELSE p[1],
                           p[2]))

MongoFindByIdCall ==
  /\ adapter = "mongo"
  /\ \E id \in Ids :
       Read("findById", id, Empty, Undefined, MongoFindById(store, id))

MongoFindOneByCall ==
  /\ adapter = "mongo"
  /\ \E p \in FindInputs :
       /\ p[1] # Undefined
       /\ Read("findOneBy", 0, p[1], p[2], MongoFindOneBy(store, p[1], p[2]))

\* findAll: if (!filter) return this._findAll(queryOptions);
\*          return this.findBy(filter, queryOptions)
MongoFindAllCall ==
  /\ adapter = "mongo"
  /\ \E p \in FindInputs :
       Read("findAll", 0, p[1], p[2],
            IF p[1] = Undefined THEN MongoFindAll(store)
            ELSE MongoFindBy(store, p[1], p[2]))

FirestoreFindByIdCall ==
  /\ adapter = "firestore"
  /\ \E id \in Ids :
       Read("findById", id, Empty, Undefined, FirestoreFindById(store, id))

FirestoreFindOneByCall ==
  /\ adapter = "firestore"
  /\ \E p \in FindInputs :
       /\ p[1] # Undefined
       /\ Read("findOneBy", 0, p[1], p[2],
               FirestoreFindOneBy(store, p[1], p[2]))

\* findAll: if (!filter) return this._findAll(queryOptions), which is
\* _findBy({}, queryOptions); the sort of the documents by dateCreated keeps
\* the order the query gave them
FirestoreFindAllCall ==
  /\ adapter = "firestore"
  /\ \E p \in FindInputs :
       Read("findAll", 0, p[1], p[2],
            FirestoreFindBy(store, IF p[1] = Undefined THEN Empty ELSE p[1],
                            p[2]))

ReadNext ==
  \/ Next
  \/ LocalFindByIdCall
  \/ LocalFindOneByCall
  \/ LocalFindAllCall
  \/ MongoFindByIdCall
  \/ MongoFindOneByCall
  \/ MongoFindAllCall
  \/ FirestoreFindByIdCall
  \/ FirestoreFindOneByCall
  \/ FirestoreFindAllCall

\* the calls of Spec together with the reads
ReadSpec == Init /\ [][ReadNext]_vars

\* ------------------------------------------------ the claims on reads
\* the rows of a backend whose deleted flag is not true
NonDeleted(s) == {i \in DOMAIN s : s[i].doc.deleted # TRUE}

\* the records a read returned
Returned == {last.returned[i] : i \in DOMAIN last.returned}

\* findAll() or findAll({}) without options
FindAllWithoutFilter ==
  /\ last.op = "findAll"
  /\ last.payload \in {Undefined, Empty}
  /\ last.options = Undefined

\* C12: findAll() and findAll({}) return every stored record whose deleted
\* flag is not true, each once, on every adapter
C12_FindAllReturnsAll ==
  FindAllWithoutFilter =>
    /\ Returned = {store[i].doc : i \in NonDeleted(store)}
    /\ Len(last.returned) = Cardinality(NonDeleted(store))

\* every field of the filter is on the record with the filter's value
AllFieldsEqual(d, filter) == \A k \in DOMAIN filter : fieldEquals(d, filter, k)

\* the non-deleted rows that satisfy every field of the filter
AndMatches(s, filter) ==
  {i \in NonDeleted(s) : AllFieldsEqual(s[i].doc, filter)}

\* a read with a filter under the default operator or an explicit AND
ReadUnderAnd(op) ==
  /\ last.op = op
  /\ last.payload # Undefined
  /\ last.options \in {Undefined, [logicalOperator |-> "AND"]}

\* C13: under AND findAll(filter) returns exactly the non-deleted records
\* that have every field of the filter, each once, and findOneBy(filter)
\* returns one of them, or nothing when there is none
C13_AndFilter ==
  /\ ReadUnderAnd("findAll") =>
       /\ Returned = {store[i].doc : i \in AndMatches(store, last.payload)}
       /\ Len(last.returned) = Cardinality(AndMatches(store, last.payload))
  /\ ReadUnderAnd("findOneBy") =>
       IF AndMatches(store, last.payload) = {} THEN last.returned = <<>>
       ELSE /\ Len(last.returned) = 1
            /\ \E i \in AndMatches(store, last.payload) :
                 last.returned[1] = store[i].doc

\* the non-deleted rows that have at least one field of the filter
OrMatches(s, filter) ==
  {i \in NonDeleted(s) :
     \E k \in DOMAIN filter : fieldEquals(s[i].doc, filter, k)}

\* C14: findAll(filter, {logicalOperator: OR}) returns the non-deleted
\* records that have at least one field of the filter, each exactly once,
\* and no record whose deleted flag is true
C14_OrFilter ==
  last.op = "findAll" /\ last.options = [logicalOperator |-> "OR"] =>
    /\ Returned = {store[i].doc : i \in OrMatches(store, last.payload)}
    /\ Len(last.returned) = Cardinality(OrMatches(store, last.payload))
    /\ \A d \in Returned : d.deleted # TRUE

ReadCall == last.op \in {"findById", "findOneBy", "findAll"}

\* C15: no record returned by findById, findOneBy or findAll, under any
\* operator, has its deleted flag true
C15_NoDeletedRead ==
  ReadCall => \A d \in Returned : d.deleted # TRUE

\* C16: the result of findAll, with or without a filter, is in descending
\* order of dateCreated
C16_NewestFirst ==
  last.op = "findAll" =>
    \A i, j \in DOMAIN last.returned :
      i < j => last.returned[i].dateCreated >= last.returned[j].dateCreated

\* a findAll under AND with a limit of at least 1
FindAllWithLimit ==
  /\ last.op = "findAll"
  /\ Has(last.options, "limit")
  /\ last.options.limit >= 1

\* the filter the call was given, {} when it was given none
GivenFilter == IF last.payload = Undefined THEN Empty ELSE last.payload

\* C17: findAll(filter, {limit: n}) returns min(n, matches) records, all of
\* them matching, and no matching record left out is newer than one returned
C17_LimitTruncates ==
  FindAllWithLimit =>
    LET n == last.options.limit
        M == AndMatches(store, GivenFilter)
    IN /\ Len(last.returned) = IF n < Cardinality(M) THEN n ELSE Cardinality(M)
       /\ Returned \subseteq {store[i].doc : i \in M}
       /\ \A d \in Returned, i \in M :
            store[i].doc \notin Returned =>
              store[i].doc.dateCreated <= d.dateCreated

\* -------------------------------- MongoCrudRepository.executeTransaction
\* TransactionExecution<R>: with a mongoExecutor, or without one
Executions == {[mongoExecutor |-> TRUE], Empty}

\* what a body resolves with
BodyResults == {"r1", "r2"}

\* the errors: of the body itself, of a nested create, of the driver
BodyFailure == [kind |-> "failure", message |-> "body"]

NestedFailure(kind, payload) ==
  [kind |-> kind, message |-> IF Has(payload, "id") THEN payload.id ELSE 0]

NoExecutor ==
  [kind |-> "internal", message |-> "No transaction executor provided"]

CommitFailure == [kind |-> "driver", message |-> "commitTransaction"]

AbortFailure == [kind |-> "driver", message |-> "abortTransaction"]

\* const session = await mongoose.startSession()
StartSession ==
  /\ adapter = "mongo"
  /\ tx.pc \in {"idle", "settled"}
  /\ steps < MaxOps
  /\ \E execution \in Executions :
       tx' = [NoTransaction EXCEPT
                !.pc = "startTransaction",
                !.execution = execution,
                !.session = steps + 1,
                !.open = tx.open \cup {steps + 1},
                !.trace = <<"startSession">>]
  /\ steps' = steps + 1
  /\ UNCHANGED <<adapter, store, now, generated, last, inflight, statics, mirror, listening>>

\* session.startTransaction(); const {mongoExecutor} = execution;
\* Objects.requireNonNull(mongoExecutor, ...), which throws out of the
\* method, or entry into the try block and mongoExecutor(session)
StartTransaction ==
  /\ tx.pc = "startTransaction"
  /\ IF Has(tx.execution, "mongoExecutor")
     THEN tx' = [tx EXCEPT
                   !.pc = "mongoExecutor",
                   !.transaction = "active",
                   !.snapshot = store,
                   !.given = tx.session,
                   !.trace = @ \o <<"startTransaction", "mongoExecutor">>]
     ELSE tx' = [tx EXCEPT
                   !.pc = "settled",
                   !.transaction = "active",
                   !.snapshot = store,
                   !.trace = Append(@, "startTransaction"),
                   !.settled = "rejected",
                   !.answer = <<NoExecutor>>]
  /\ UNCHANGED <<adapter, store, now, generated, steps, last, inflight, statics, mirror, listening>>

\* the body awaits a create made with the session; a create that throws
\* rejects the body with that error
MongoExecutorCreate ==
  /\ tx.pc = "mongoExecutor"
  /\ tx.calls < MaxBody
  /\ \E payload \in BatchPayloads :
       LET outcome == MongoCreate(store, payload, generated, now)
           thrown == NestedFailure(outcome.result, payload)
       IN /\ store' = outcome.store
          /\ tx' = IF outcome.result = "ok"
                   THEN [tx EXCEPT !.calls = @ + 1,
                                   !.body = Append(@, [payload |-> payload,
                                                       result |-> "ok"])]
                   ELSE [tx EXCEPT !.calls = @ + 1,
                                   !.body = Append(@, [payload |-> payload,
                                                       result |-> outcome.result]),
                                   !.pc = "abortTransaction",
                                   !.bodyError = <<thrown>>,
                                   !.error = <<thrown>>]
  /\ now' = now + 1
  /\ generated' = generated + 1
  /\ UNCHANGED <<adapter, steps, last, inflight, statics, mirror, listening>>

\* a body whose result is returned without a commit
MongoExecutorResolvesUncommitted ==
  /\ tx.pc = "mongoExecutor"
  /\ \E r \in BodyResults :
       tx' = [tx EXCEPT !.pc = "endSession", !.result = <<r>>]
  /\ UNCHANGED <<adapter, store, now, generated, steps, last, inflight, statics, mirror, listening>>

\* const result: R = await mongoExecutor(session)
MongoExecutorResolves ==
  /\ tx.pc = "mongoExecutor"
  /\ \E r \in BodyResults :
       tx' = [tx EXCEPT !.pc = "commitTransaction", !.result = <<r>>]
  /\ UNCHANGED <<adapter, store, now, generated, steps, last, inflight, statics, mirror, listening>>

\* a rejection of the body that goes past the catch block to finally
MongoExecutorRejectsUncaught ==
  /\ tx.pc = "mongoExecutor"
  /\ tx' = [tx EXCEPT !.pc = "endSession",
                      !.bodyError = <<BodyFailure>>,
                      !.error = <<BodyFailure>>]
  /\ UNCHANGED <<adapter, store, now, generated, steps, last, inflight, statics, mirror, listening>>

\* the body throws an error of its own: control goes to the catch block
MongoExecutorRejects ==
  /\ tx.pc = "mongoExecutor"
  /\ tx' = [tx EXCEPT !.pc = "abortTransaction",
                      !.bodyError = <<BodyFailure>>,
                      !.error = <<BodyFailure>>]
  /\ UNCHANGED <<adapter, store, now, generated, steps, last, inflight, statics, mirror, listening>>

\* await session.commitTransaction(); return result  - or the commit
\* rejects and control goes to the catch block with the commit's error
CommitTransaction ==
  /\ tx.pc = "commitTransaction"
  /\ \E resolved \in BOOLEAN :
       tx' = IF resolved
             THEN [tx EXCEPT !.pc = "endSession",
                             !.transaction = "committed",
                             !.trace = Append(@, "commitTransaction")]
             ELSE [tx EXCEPT !.pc = "abortTransaction",
                             !.transaction = "unknown",
                             !.error = <<CommitFailure>>,
                             !.trace = Append(@, "commitTransaction")]
  /\ UNCHANGED <<adapter, store, now, generated, steps, last, inflight, statics, mirror, listening>>

\* an abort that leaves the writes of the transaction in the collection
AbortTransactionKeeping ==
  /\ tx.pc = "abortTransaction"
  /\ tx' = [tx EXCEPT !.pc = "endSession",
                      !.transaction = "aborted",
                      !.trace = Append(@, "abortTransaction")]
  /\ UNCHANGED <<adapter, store, now, generated, steps, last, inflight, statics, mirror, listening>>

\* catch (error) { await session.abortTransaction(); throw error; }
\* an abort that resolves discards the writes of the transaction; an abort
\* that rejects leaves the catch block with its own error.  The driver
\* keeps the server's errors of an abort to itself and rejects an abort
\* only for a transaction on which commitTransaction was already called
AbortTransaction ==
  /\ tx.pc = "abortTransaction"
  /\ \E resolved \in IF tx.transaction = "unknown" THEN BOOLEAN ELSE {TRUE} :
       IF resolved
       THEN /\ tx' = [tx EXCEPT !.pc = "endSession",
                                !.transaction = "aborted",
                                !.trace = Append(@, "abortTransaction")]
            /\ store' = tx.snapshot
       ELSE /\ tx' = [tx EXCEPT !.pc = "endSession",
                                !.error = <<AbortFailure>>,
                                !.trace = Append(@, "abortTransaction")]
            /\ store' = store
  /\ UNCHANGED <<adapter, now, generated, steps, last, inflight, statics, mirror, listening>>

\* finally { await session.endSession(); }  and then the return or the
\* throw that was pending.  Writes of a transaction that was never committed
\* end with the session; after a commit that rejected and an abort that
\* rejected the backend may hold them or not
EndSession ==
  /\ tx.pc = "endSession"
  /\ tx' = [tx EXCEPT
              !.pc = "settled",
              !.open = @ \ {tx.session},
              !.trace = Append(@, "endSession"),
              !.settled = IF tx.error = <<>> THEN "resolved" ELSE "rejected",
              !.answer = IF tx.error = <<>> THEN tx.result ELSE tx.error]
  /\ CASE tx.transaction = "active" -> store' = tx.snapshot
       [] tx.transaction = "unknown" -> store' \in {store, tx.snapshot}
       [] OTHER -> store' = store
  /\ UNCHANGED <<adapter, now, generated, steps, last, inflight, statics, mirror, listening>>

TransactionNext ==
  \/ StartSession
  \/ StartTransaction
  \/ MongoExecutorCreate
  \/ MongoExecutorResolves
  \/ MongoExecutorRejects
  \/ CommitTransaction
  \/ AbortTransaction
  \/ EndSession

\* the document-database adapter running transactions
TransactionSpec == Init /\ [][TransactionNext]_vars

\* ------------------------------------------ the claims on transactions
TransactionSettled == tx.pc = "settled"

Called(name) == \E i \in DOMAIN tx.trace : tx.trace[i] = name

\* C18: an executeTransaction that resolved opened the session, started the
\* transaction, invoked the body once with that session, committed after
\* the body had resolved and ended the session, in this order and without
\* an abort, and it resolved with the result of the body
C18_CommitOnSuccess ==
  /\ Called("commitTransaction") => tx.result # <<>>
  /\ TransactionSettled /\ tx.settled = "resolved" =>
       /\ tx.trace = <<"startSession", "startTransaction", "mongoExecutor",
                       "commitTransaction", "endSession">>
       /\ tx.session # 0
       /\ tx.given = tx.session
       /\ tx.result # <<>>
       /\ tx.answer = tx.result

\* a transaction whose body created a record resolved
C18_Witness ==
  /\ TransactionSettled
  /\ tx.settled = "resolved"
  /\ tx.calls > 0
  /\ store # <<>>

\* C19: when the body rejected with an error e, the settled call never
\* called commit, called abort, and rejected with e itself
C19_BodyErrorRethrown ==
  TransactionSettled /\ tx.bodyError # <<>> =>
    /\ ~Called("commitTransaction")
    /\ Called("abortTransaction")
    /\ tx.settled = "rejected"
    /\ tx.answer = tx.bodyError

\* C20: once an executeTransaction that opened a session has settled, on
\* whatever path, endSession has been called and its session is not open
C20_SessionEnded ==
  TransactionSettled /\ Called("startSession") =>
    /\ Called("endSession")
    /\ tx.session \notin tx.open

\* a body whose second create repeated the id its first create had stored
SecondCreateRepeatsId ==
  /\ Len(tx.body) = 2
  /\ ~isEmpty(tx.body[1].payload, "id")
  /\ tx.body[1].result = "ok"
  /\ ~isEmpty(tx.body[2].payload, "id")
  /\ tx.body[2].payload.id = tx.body[1].payload.id

\* a body that rejected with an error settled the call with that error
C19_Witness ==
  /\ TransactionSettled
  /\ tx.bodyError = <<BodyFailure>>
  /\ tx.answer = <<BodyFailure>>
  /\ tx.calls > 0

\* C21: when the second create of a body repeats the id k1 of its first,
\* successful create, that create fails with duplicate-record, the call
\* rejects with duplicate-record, and findById(k1) is empty afterwards
C21_RolledBack ==
  SecondCreateRepeatsId =>
    /\ tx.body[2].result = "duplicate-record"
    /\ TransactionSettled =>
         /\ tx.settled = "rejected"
         /\ tx.answer = <<NestedFailure("duplicate-record", tx.body[2].payload)>>
         /\ MongoFindById(store, tx.body[1].payload.id) = <<>>

C21_Witness ==
  /\ SecondCreateRepeatsId
  /\ TransactionSettled
  /\ tx.settled = "rejected"
  /\ Called("abortTransaction")

\* ------------------------------------------------------ calls under way
\* A call is an async function: it runs to its first await when it is
\* called, and the rest runs later, after whatever other calls ran in
\* between.  inflight[p] is the call of caller p: what it was called with,
\* the backend it read before its await (read), the callers whose calls
\* were waiting when it began (during), when it began (began), and how it
\* settled.
ConcurrentPartials == {[name |-> "y"], [version |-> 1]}

ConcurrentRemoveOptions == {Undefined, [softDelete |-> FALSE]}

Awaiting == {p \in Callers : inflight[p].pc = "awaiting"}

Begin(p, op, id, payload, options, ids) ==
  /\ steps < MaxOps
  /\ inflight[p].pc = "idle"
  /\ inflight' = [inflight EXCEPT ![p] =
                    [op |-> op, id |-> id, payload |-> payload,
                     options |-> options, pc |-> "awaiting", read |-> store,
                     during |-> Awaiting, began |-> now, at |-> 0,
                     result |-> "none"]]
  /\ steps' = steps + 1
  /\ generated' = generated + ids
  /\ UNCHANGED <<adapter, store, now, last, tx, statics, mirror, listening>>

Resolve(p, outcome) ==
  /\ inflight[p].pc = "awaiting"
  /\ store' = outcome.store
  /\ now' = now + 1
  /\ inflight' = [inflight EXCEPT ![p].pc = "settled", ![p].at = now,
                                  ![p].result = outcome.result]
  /\ UNCHANGED <<adapter, generated, steps, last, tx, statics, mirror, listening>>

\* LocalStorageCrudRepository.create: getId (createId, or findById for the
\* duplicate check) runs at the call; after the await the blob is read,
\* extended and written in one synchronous block
LocalCreateResumed(call, s, t) ==
  IF ~isEmpty(call.payload, "id") /\ LocalCheckDuplicateId(call.read, call.id)
  THEN Outcome(s, "duplicate-record", <<>>, 1, 0)
  ELSE LET item == LocalItem(call.payload, call.id, t)
       IN Outcome(put(s, getActiveKey(item.id), item), "ok", <<item>>, 1, 1)

\* LocalStorageCrudRepository.update: findExpectedRecord parses the blob at
\* the call and hands the parsed object over the await; performUpdate sets
\* the record in that object and writes the object back as the blob
LocalUpdateResumed(call, s, t) ==
  LET outcome == LocalUpdate(call.read, call.id, call.payload, call.options, t)
  IN IF outcome.writes = 0 THEN [outcome EXCEPT !.store = s] ELSE outcome

\* LocalStorageCrudRepository.remove: the same object goes to softDelete or
\* hardDelete, which write it back as the blob
LocalRemoveResumed(call, s, t) ==
  LET outcome == LocalRemove(call.read, call.id, call.options, t)
  IN IF outcome.writes = 0 THEN [outcome EXCEPT !.store = s] ELSE outcome

\* MongoCrudRepository.update: findExpectedRecord answers with the record
\* as stored at the lookup; the version check and updateOne come after
MongoUpdateResumed(call, s, t) ==
  IF MongoFindById(call.read, call.id) = <<>>
  THEN Outcome(s, "record-not-found", <<>>, 1, 0)
  ELSE LET record == MongoFindById(call.read, call.id)[1]
       IN IF isOptimistic(call.options) /\ versionMismatch(record, call.payload)
          THEN Outcome(s, "optimistic-lock", <<>>, 1, 0)
          ELSE MongoPerformUpdate(s, record, call.payload, FALSE, t)

\* FirestoreCrudRepository.update: the same two steps, getDocs then updateDoc
FirestoreUpdateResumed(call, s, t) ==
  IF FirestoreFindById(call.read, call.id) = <<>>
  THEN Outcome(s, "record-not-found", <<>>, 1, 0)
  ELSE LET record == FirestoreFindById(call.read, call.id)[1]
       IN IF isOptimistic(call.options) /\ versionMismatch(record, call.payload)
          THEN Outcome(s, "optimistic-lock", <<>>, 1, 0)
          ELSE FirestorePerformUpdate(s, record, call.payload, t)

\* FirestoreCrudRepository.create: updatePayload stamps the payload at the
\* call; getId awaits findById (getDocs) for the duplicate check; after that
\* await setDoc writes the document under its id, replacing what is there
FirestoreCreateResumed(call, s, t) ==
  IF ~isEmpty(call.payload, "id")
     /\ FirestoreCheckDuplicateId(call.read, call.id)
  THEN Outcome(s, "duplicate-record", <<>>, 1, 0)
  ELSE LET entity == FirestoreItem(call.payload, call.id, t)
       IN Outcome(put(s, call.id, entity), "ok", <<entity>>, 1, 1)

LocalCreateBegins(p) ==
  /\ adapter = "local"
  /\ \E payload \in BatchPayloads :
       IF isEmpty(payload, "id")
       THEN Begin(p, "create", generate(generated + 1), payload, Undefined, 1)
       ELSE Begin(p, "create", payload.id, payload, Undefined, 0)

LocalCreateResumes(p) ==
  /\ adapter = "local"
  /\ inflight[p].op = "create"
  /\ Resolve(p, LocalCreateResumed(inflight[p], store, now))

LocalUpdateBegins(p) ==
  /\ adapter = "local"
  /\ \E id \in Ids, payload \in ConcurrentPartials, options \in UpdateOptions :
       Begin(p, "update", id, payload, options, 0)

LocalUpdateResumes(p) ==
  /\ adapter = "local"
  /\ inflight[p].op = "update"
  /\ Resolve(p, LocalUpdateResumed(inflight[p], store, now))

LocalRemoveBegins(p) ==
  /\ adapter = "local"
  /\ \E id \in Ids, options \in ConcurrentRemoveOptions :
       Begin(p, "remove", id, Empty, options, 0)

LocalRemoveResumes(p) ==
  /\ adapter = "local"
  /\ inflight[p].op = "remove"
  /\ Resolve(p, LocalRemoveResumed(inflight[p], store, now))

MongoUpdateBegins(p) ==
  /\ adapter = "mongo"
  /\ \E id \in Ids, payload \in ConcurrentPartials, options \in UpdateOptions :
       Begin(p, "update", id, payload, options, 0)

\* an update that looks the record up again when it is about to write
MongoUpdateResumesRechecking(p) ==
  /\ adapter = "mongo"
  /\ inflight[p].op = "update"
  /\ Resolve(p, MongoUpdate(store, inflight[p].id, inflight[p].payload,
                            inflight[p].options, now))

MongoUpdateResumes(p) ==
  /\ adapter = "mongo"
  /\ inflight[p].op = "update"
  /\ Resolve(p, MongoUpdateResumed(inflight[p], store, now))

FirestoreUpdateBegins(p) ==
  /\ adapter = "firestore"
  /\ \E id \in Ids, payload \in ConcurrentPartials, options \in UpdateOptions :
       Begin(p, "update", id, payload, options, 0)

FirestoreUpdateResumes(p) ==
  /\ adapter = "firestore"
  /\ inflight[p].op = "update"
  /\ Resolve(p, FirestoreUpdateResumed(inflight[p], store, now))

FirestoreCreateBegins(p) ==
  /\ adapter = "firestore"
  /\ \E payload \in BatchPayloads :
       IF isEmpty(payload, "id")
       THEN Begin(p, "create", generate(generated + 1), payload, Undefined, 1)
       ELSE Begin(p, "create", payload.id, payload, Undefined, 0)

FirestoreCreateResumes(p) ==
  /\ adapter = "firestore"
  /\ inflight[p].op = "create"
  /\ Resolve(p, FirestoreCreateResumed(inflight[p], store, inflight[p].began))

\* records come into the backend by create calls that run alone; then the
\* callers' calls run side by side
ConcurrentNext ==
  \/ LocalCreateCall
  \/ MongoCreateCall
  \/ FirestoreCreateCall
  \/ \E p \in Callers : LocalCreateBegins(p)
  \/ \E p \in Callers : LocalCreateResumes(p)
  \/ \E p \in Callers : LocalUpdateBegins(p)
  \/ \E p \in Callers : LocalUpdateResumes(p)
  \/ \E p \in Callers : LocalRemoveBegins(p)
  \/ \E p \in Callers : LocalRemoveResumes(p)
  \/ \E p \in Callers : MongoUpdateBegins(p)
  \/ \E p \in Callers : MongoUpdateResumes(p)
  \/ \E p \in Callers : FirestoreUpdateBegins(p)
  \/ \E p \in Callers : FirestoreUpdateResumes(p)
  \/ \E p \in Callers : FirestoreCreateBegins(p)
  \/ \E p \in Callers : FirestoreCreateResumes(p)

ConcurrentSpec == Init /\ [][ConcurrentNext]_vars

\* ------------------------------------------------- claims on calls under way
\* the record a call under way found at its lookup
LookedUp(p) == FindById(inflight[p].read, inflight[p].id)

\* callers p and q both ran update with optimistic locking on one id, both
\* found the record at version v and both carry version v
BothCarryReadVersion(p, q) ==
  /\ p # q
  /\ inflight[p].op = "update" /\ inflight[q].op = "update"
  /\ inflight[p].pc = "settled" /\ inflight[q].pc = "settled"
  /\ inflight[p].id = inflight[q].id
  /\ isOptimistic(inflight[p].options) /\ isOptimistic(inflight[q].options)
  /\ LookedUp(p) # <<>> /\ LookedUp(q) # <<>>
  /\ LookedUp(p)[1].version = LookedUp(q)[1].version
  /\ Has(inflight[p].payload, "version") /\ Has(inflight[q].payload, "version")
  /\ inflight[p].payload.version = LookedUp(p)[1].version
  /\ inflight[q].payload.version = LookedUp(q)[1].version

\* C22: two update calls with optimistic locking on the same id that both
\* read the stored version v and both carry version v both pass the version
\* check and both resolve true: the check compares against the version each
\* call read, not against what is stored when it writes
C22_BothPassVersionCheck ==
  \A p, q \in Callers :
    BothCarryReadVersion(p, q) =>
      inflight[p].result = "ok" /\ inflight[q].result = "ok"

\* the second call looked the record up while the first was waiting, and
\* both resolved true
C22_Witness ==
  \E p, q \in Callers :
    /\ BothCarryReadVersion(p, q)
    /\ p \in inflight[q].during
    /\ inflight[p].at < inflight[q].at
    /\ inflight[p].result = "ok" /\ inflight[q].result = "ok"

\* the calls of p and q were under way at the same time
Overlapped(p, q) == p \in inflight[q].during \/ q \in inflight[p].during

\* what the call of p wrote is in the blob (or something written later is)
LocalEffect(p) ==
  LET call == inflight[p]
      active == keyIndex(store, getActiveKey(call.id))
      inactive == keyIndex(store, getInactiveKey(call.id))
  IN CASE call.op \in {"create", "update"} ->
            active # 0 /\ store[active].doc.dateUpdated >= call.at
       [] call.op = "remove" /\ isSoftDelete(call.options) ->
            inactive # 0 /\ store[inactive].doc.dateDeleted >= call.at
       [] OTHER ->
            active = 0 \/ store[active].doc.dateUpdated > call.at

\* two calls on different ids, the second begun before the first resolved,
\* have both resolved
BothResolved(p, q) ==
  /\ adapter = "local"
  /\ p # q
  /\ Overlapped(p, q)
  /\ inflight[p].id # inflight[q].id
  /\ inflight[p].pc = "settled" /\ inflight[q].pc = "settled"
  /\ inflight[p].result = "ok" /\ inflight[q].result = "ok"

\* C23: on the local adapter create, update and remove are each atomic:
\* when two calls on different ids are issued concurrently, the blob holds
\* both effects once both have resolved; no call overwrites the other's
\* write with a stale copy of the blob
C23_BothEffectsKept ==
  [][\A p, q \in Callers :
       (BothResolved(p, q)' /\ ~BothResolved(p, q)) =>
         (LocalEffect(p)' /\ LocalEffect(q)')]_vars

\* ------------------------------------------------- claims on the stamping
\* the row stored under the id of a returned entity
StoredAs(entity) == store[keyIndex(store, KeyOf(entity.id))].doc

CreateCall == last.op \in {"create", "createAll"}

\* C24: every successful create, and every entry of a successful createAll,
\* returns and stores an entity with version 1, whether or not the payload
\* carries a version field
C24_CreatedAtVersionOne ==
  CreateCall /\ Succeeded =>
    \A i \in DOMAIN last.returned :
      /\ Has(last.returned[i], "version") /\ last.returned[i].version = 1
      /\ ~isEmpty(last.returned[i], "id")
           /\ keyIndex(store, KeyOf(last.returned[i].id)) # 0 =>
             StoredAs(last.returned[i]).version = 1

\* C25: every successful create returns an entity whose dateCreated equals
\* its dateUpdated, whether or not the caller supplied a dateCreated
C25_CreatedWhenUpdated ==
  last.op = "create" /\ Succeeded =>
    \A i \in DOMAIN last.returned :
      /\ Has(last.returned[i], "dateCreated")
      /\ Has(last.returned[i], "dateUpdated")
      /\ last.returned[i].dateCreated = last.returned[i].dateUpdated

\* C26: the dateCreated of a stored record never changes: after a successful
\* update or soft remove, whatever the partial carries, the stored
\* dateCreated is the one stored before
C26_DateCreatedKept ==
  (UpdateCall \/ SoftRemoveCall) /\ Succeeded =>
    /\ keyIndex(store, AfterKey) # 0
    /\ AfterRecord.dateCreated = BeforeRecord.dateCreated

\* C27: in every reachable backend state each stored record has dateDeleted
\* set if and only if its deleted flag is true, for every payload create
\* accepts and every partial update accepts
C27_DateDeletedIffDeleted ==
  \A d \in Docs(store) : Has(d, "dateDeleted") <=> d.deleted = TRUE

\* C28: the id is stable: after a successful update(id, partial), whatever
\* the partial carries (an id different from id included), findById(id)
\* still returns the record and its id field equals id
C28_IdStable ==
  UpdateCall /\ Succeeded =>
    /\ FindById(store, last.id) # <<>>
    /\ FindById(store, last.id)[1].id = last.id

\* the fields a caller can compare: id, version, deleted, the timestamps
\* and the user fields
EntityFields ==
  {"id", "version", "deleted", "dateCreated", "dateUpdated", "dateDeleted",
   "name"}

SameEntity(a, b) ==
  \A f \in EntityFields :
    /\ Has(a, f) <=> Has(b, f)
    /\ Has(a, f) => a[f] = b[f]

\* C29: create returns exactly what it stored: right after r = create(p),
\* findById(r.id) is present and equal to r in id, version, deleted,
\* timestamps and user fields
C29_CreateReturnsStored ==
  last.op = "create" /\ Succeeded =>
    /\ Len(last.returned) = 1
    /\ FindById(store, last.returned[1].id) # <<>>
    /\ SameEntity(FindById(store, last.returned[1].id)[1], last.returned[1])

\* ------------------------------------------------------- init and for
\* The configuration is held in static members of each adapter class
\* (connectionProperties, initialized) and in the singleton of its provider.
\* The environment defaults (APP_NAME, STORAGE_PATH, MONGO_URI, FIREBASE_*)
\* are unset.
CollectionNames == {"user", "order"}

\* the names handed to for(collectionName), the empty name among them
ForNames == CollectionNames \cup {""}

\* LocalStorageConnectionProperties: both members optional
LocalConfigurations ==
  {a @@ p : a \in {Empty, [appName |-> ""], [appName |-> "a"], [appName |-> "b"]},
            p \in {Empty, [storagePath |-> "p"], [storagePath |-> "q"]}}

\* MongoConnectionProperties: the names of the entities, and the uri
MongoConfigurations ==
  {[entities |-> e, appName |-> "a"] @@ u :
     e \in SUBSET CollectionNames,
     u \in {Empty, [uri |-> "u1"], [uri |-> "u2"]}}

\* FirestoreConnectionProperties: apiKey, authDomain and projectId as one
FirestoreConfigurations ==
  {Empty, [credentials |-> "c1"], [credentials |-> "c2"]}

\* one static call ran to its end
Static(op, name, next, error) ==
  /\ steps < MaxOps
  /\ statics' = [next EXCEPT !.op = op, !.name = name, !.error = error]
  /\ steps' = steps + 1
  /\ UNCHANGED <<adapter, store, now, generated, last, tx, inflight, mirror, listening>>

\* every init stores the properties it was given and sets initialized
Initialized(properties) ==
  [statics EXCEPT !.initialized = TRUE, !.properties = properties,
                  !.first = IF statics.first = Empty THEN properties
                            ELSE statics.first]

LocalStorageInit ==
  /\ adapter = "local"
  /\ \E configuration \in LocalConfigurations :
       LET name == IF Has(configuration, "appName")
                   THEN configuration.appName ELSE "app"
           path == IF Has(configuration, "storagePath")
                   THEN configuration.storagePath ELSE "./db"
       IN IF name = "" \/ path = ""
          THEN Static("init", "", statics, "configuration")
          ELSE Static("init", "", Initialized([appName |-> name, storagePath |-> path]),
                      "none")

\* LocalStorageProvider.getInstance(path): the instance made by the first
\* call, whatever path later calls pass
LocalStorageProviderGetInstance(path) ==
  IF statics.provider = "none" THEN path ELSE statics.provider

\* new LocalStorageCrudRepository(collectionName)
LocalStorageFor ==
  /\ adapter = "local"
  /\ \E collectionName \in ForNames :
       IF ~statics.initialized \/ collectionName = ""
       THEN Static("for", collectionName, statics, "configuration")
       ELSE LET storage ==
                  LocalStorageProviderGetInstance(statics.properties.storagePath)
                instance ==
                  [collectionName |-> collectionName,
                   storageKey |-> <<statics.properties.appName, collectionName>>,
                   storage |-> storage]
            IN Static("for", collectionName,
                      [statics EXCEPT !.provider = storage,
                                      !.instances = Append(@, instance)],
                      "none")

MongoInit ==
  /\ adapter = "mongo"
  /\ \E configuration \in MongoConfigurations :
       LET mongodbUri == IF Has(configuration, "uri")
                         THEN configuration.uri ELSE ""
       IN IF mongodbUri = "" /\ statics.connection = "none"
          THEN Static("init", "", statics, "internal")
          ELSE IF configuration.entities = {}
          THEN Static("init", "", statics, "internal")
          ELSE Static("init", "", Initialized([appName |-> configuration.appName,
                                   entities |-> configuration.entities,
                                   uri |-> mongodbUri]),
                      "none")

\* new MongoCrudRepository(collectionName)
MongoFor ==
  /\ adapter = "mongo"
  /\ \E collectionName \in ForNames :
       IF ~statics.initialized \/ collectionName = ""
       THEN Static("for", collectionName, statics, "internal")
       ELSE IF collectionName \notin statics.properties.entities
       THEN Static("for", collectionName, statics, "internal")
       ELSE Static("for", collectionName,
                   [statics EXCEPT !.instances =
                      Append(@, [collectionName |-> collectionName,
                                 entities |-> statics.properties.entities])],
                   "none")

\* createConnection, at the head of every operation of an instance: connects
\* with the uri held now unless a connection is open, and registers the
\* models of the entities held now
MongoCreateConnection ==
  /\ adapter = "mongo"
  /\ statics.instances # <<>>
  /\ IF statics.connection # "none"
     THEN Static("createConnection", "", statics, "none")
     ELSE Static("createConnection", "", [statics EXCEPT !.connection = statics.properties.uri,
                                 !.models = statics.properties.entities],
                 "none")

FirestoreInit ==
  /\ adapter = "firestore"
  /\ \E configuration \in FirestoreConfigurations :
       LET credentials == IF Has(configuration, "credentials")
                          THEN configuration.credentials ELSE ""
       IN IF credentials = ""
          THEN Static("init", "", statics, "configuration")
          ELSE Static("init", "", Initialized([credentials |-> credentials]), "none")

\* FirestoreProvider.getInstance(properties): the instance made by the first
\* call
FirestoreProviderGetInstance(properties) ==
  IF statics.provider = "none" THEN properties.credentials
  ELSE statics.provider

\* new FirestoreCrudRepository(collectionName)
FirestoreFor ==
  /\ adapter = "firestore"
  /\ \E collectionName \in ForNames :
       IF ~statics.initialized \/ collectionName = ""
       THEN Static("for", collectionName, statics, "configuration")
       ELSE LET database == FirestoreProviderGetInstance(statics.properties)
            IN Static("for", collectionName,
                      [statics EXCEPT !.provider = database,
                                      !.instances =
                                        Append(@, [collectionName |-> collectionName,
                                                   database |-> database])],
                      "none")

InitNext ==
  \/ LocalStorageInit
  \/ LocalStorageFor
  \/ MongoInit
  \/ MongoFor
  \/ MongoCreateConnection
  \/ FirestoreInit
  \/ FirestoreFor

InitSpec == Init /\ [][InitNext]_vars

\* the instances obtained so far
Instances == {statics.instances[i] : i \in DOMAIN statics.instances}

\* C30: initialization is first-wins: after a successful init, a later init
\* with another configuration does not change what the adapters obtained
\* afterwards use: storage path and app-name prefix of the storage key
\* (local), uri and entity list (mongo), credentials (firestore)
C30_FirstInitWins ==
  \A instance \in Instances :
    CASE adapter = "local" ->
           /\ instance.storageKey[1] = statics.first.appName
           /\ instance.storage = statics.first.storagePath
      [] adapter = "mongo" ->
           /\ instance.entities = statics.first.entities
           /\ statics.connection \in {"none", statics.first.uri}
      [] OTHER ->
           instance.database = statics.first.credentials

\* ------------------------------------------------ claims on init and for
\* the step is a call of for(collectionName) made before any successful
\* init, or with the empty name
ForWithoutInitOrName ==
  /\ steps' = steps + 1
  /\ statics'.op = "for"
  /\ ~statics.initialized \/ statics'.name = ""

\* C31: for(collectionName) before any successful init, or with an empty
\* collection name, fails at construction with a configuration error on
\* every backend, and no adapter instance is produced
C31_ForNeedsInitAndName ==
  [][ForWithoutInitOrName =>
       /\ statics'.error = "configuration"
       /\ statics'.instances = statics.instances]_vars

\* ------------------------------------------- the same calls on two backends
\* Every call goes to the local adapter (store) and, with the same
\* arguments, to the document-database adapter (mirror).  Both draw the
\* same generated ids and read the same clock.
Both(local, mongo, ids) ==
  /\ adapter = "local"
  /\ steps < MaxOps
  /\ store' = local.store
  /\ mirror' = mongo.store
  /\ now' = now + 1
  /\ generated' = generated + ids
  /\ steps' = steps + 1
  /\ UNCHANGED <<adapter, last, tx, inflight, statics, listening>>

BothCreate ==
  \E payload \in Payloads :
    Both(LocalCreate(store, payload, generated, now),
         MongoCreate(mirror, payload, generated, now), 1)

BothUpdate ==
  \E id \in Ids, payload \in Partials, queryOptions \in UpdateOptions :
    Both(LocalUpdate(store, id, payload, queryOptions, now),
         MongoUpdate(mirror, id, payload, queryOptions, now), 0)

BothRemove ==
  \E id \in Ids, queryOptions \in RemoveOptions :
    Both(LocalRemove(store, id, queryOptions, now),
         MongoRemove(mirror, id, queryOptions, now), 0)

BothNext == BothCreate \/ BothUpdate \/ BothRemove

BothSpec == Init /\ [][BothNext]_vars

\* a record as a caller sees it: the document without the backend's _id
entityOf(d) == [f \in DOMAIN d \ {"_id"} |-> d[f]]

Members(list) == {entityOf(list[i]) : i \in DOMAIN list}

NoneRepeated(list) == Cardinality(Members(list)) = Len(list)

\* the reads under AND (the default) and under OR
AndOrInputs ==
  {p \in FindInputs :
     p[2] \in {Undefined, [logicalOperator |-> "AND"], [logicalOperator |-> "OR"]}}

LocalFindAllAnswer(p) ==
  LocalFindAllBy(store, IF p[1] = Undefined THEN Empty ELSE p[1], p[2])

MongoFindAllAnswer(p) ==
  IF p[1] = Undefined THEN MongoFindAll(mirror)
  ELSE MongoFindBy(mirror, p[1], p[2])

\* C32: the local adapter and the document-database adapter are equivalent
\* for reads: after the same create, update and remove calls on both,
\* findAll(filter, opts) returns the same records on both, none repeated,
\* and findOneBy(filter, opts) is empty on both or present on both, for AND
\* and for OR
C32_SameReads ==
  \A p \in AndOrInputs :
    /\ Members(LocalFindAllAnswer(p)) = Members(MongoFindAllAnswer(p))
    /\ NoneRepeated(LocalFindAllAnswer(p))
    /\ NoneRepeated(MongoFindAllAnswer(p))
    /\ p[1] # Undefined =>
         (LocalFindOneBy(store, p[1], p[2]) = <<>>
            <=> MongoFindOneBy(mirror, p[1], p[2]) = <<>>)

\* ------------------------------------------- claims on the local blob
\* C33: in the local adapter every entry of the blob is stored under the
\* key built from its own id and deleted flag: under "k:false" a record with
\* id k and deleted false, under "k:true" one with id k and deleted true
C33_KeyMatchesRecord ==
  adapter = "local" =>
    \A i \in DOMAIN store :
      /\ store[i].doc.id = store[i].key[1]
      /\ store[i].doc.deleted = store[i].key[2]

\* a create with an explicit id right after that id was soft removed and
\* not created again
CreateAfterSoftRemove ==
  /\ adapter = "local"
  /\ last.op = "create"
  /\ ~isEmpty(last.payload, "id")
  /\ keyIndex(last.before, getInactiveKey(last.payload.id)) # 0
  /\ keyIndex(last.before, getActiveKey(last.payload.id)) = 0

\* C34: on the local adapter, after a soft remove(id) a create with the same
\* explicit id succeeds, and afterwards the blob holds the new active record
\* and the soft-deleted copy as two entries
C34_CreateAfterSoftRemove ==
  CreateAfterSoftRemove =>
    /\ Succeeded
    /\ keyIndex(store, getActiveKey(last.payload.id)) # 0
    /\ keyIndex(store, getInactiveKey(last.payload.id)) # 0
    /\ store[keyIndex(store, getInactiveKey(last.payload.id))]
         = last.before[keyIndex(last.before, getInactiveKey(last.payload.id))]

C34_Witness == CreateAfterSoftRemove /\ Succeeded

\* ------------------------------------------ calls on a backend with records
\* The backend after createAll([{id: 1, name: "x"}, {id: 2, name: "x"}]) on
\* the empty collection at time 2: the calls of Spec start from two records.
TwoRecords == <<[id |-> 1, name |-> "x"], [id |-> 2, name |-> "x"]>>

SeededInit ==
  /\ adapter \in Adapters
  /\ store = CASE adapter = "local" -> LocalCreateAll(<<>>, TwoRecords, 0, 2).store
               [] adapter = "mongo" -> MongoCreateAll(<<>>, TwoRecords, 0, 2).store
               [] OTHER -> FirestoreCreateAll(<<>>, TwoRecords, 0, 2).store
  /\ now = 3
  /\ generated = 0
  /\ steps = 0
  /\ last = NoCall
  /\ tx = NoTransaction
  /\ inflight = [p \in Callers |-> NoPending]
  /\ statics = NotInitialized
  /\ mirror = <<>>
  /\ listening = NotListening

SeededSpec == SeededInit /\ [][Next]_vars

\* ------------------------------------------ claims on soft-deleted targets
\* the call before was a successful soft remove, and this step is an
\* update or a remove of the same id
TargetsSoftRemoved ==
  /\ SoftRemoveCall /\ Succeeded
  /\ steps' = steps + 1
  /\ last'.op \in {"update", "remove"}
  /\ last'.id = last.id

\* C35: a soft-deleted record is no longer a target: after a successful
\* soft remove(id), a further remove(id) or update(id, partial) fails with
\* record-not-found on every adapter and leaves the backend as it was
C35_SoftDeletedNoTarget ==
  [][TargetsSoftRemoved =>
       (last'.result = "record-not-found" /\ store' = store)]_vars

\* ------------------------------------------------ claims on the frame
\* every row but the addressed one is still there, as it was
OthersKept ==
  \A i \in DOMAIN last.before :
    i # BeforeIndex => \E j \in DOMAIN store : store[j] = last.before[i]

\* no row came into being or changed but the addressed one
NothingElseWritten ==
  \A j \in DOMAIN store :
    \/ \E i \in DOMAIN last.before : last.before[i] = store[j]
    \/ BeforeIndex # 0 /\ store[j].key = AfterKey

\* C36: update(id, partial) and remove(id) touch only the addressed record:
\* on every adapter and for every partial, one that carries another id
\* included, no other record is created, modified or deleted by the call
C36_OnlyAddressedTouched ==
  last.op \in {"update", "remove"} => OthersKept /\ NothingElseWritten

\* ---- the duplicate-id guard under concurrency ------------------------------

\* p and q called create with the same explicit id side by side while
\* neither lookup found a record of that id, and both calls have settled
SameIdCreates(p, q) ==
  /\ adapter \in {"local", "firestore"}
  /\ p # q
  /\ Overlapped(p, q)
  /\ inflight[p].op = "create" /\ inflight[q].op = "create"
  /\ ~isEmpty(inflight[p].payload, "id")
  /\ ~isEmpty(inflight[q].payload, "id")
  /\ inflight[p].id = inflight[q].id
  /\ FindById(inflight[p].read, inflight[p].id) = <<>>
  /\ FindById(inflight[q].read, inflight[q].id) = <<>>
  /\ inflight[p].pc = "settled" /\ inflight[q].pc = "settled"

\* C37: on the local and the firestore adapter, of two create calls with the
\* same explicit id issued concurrently while no record of that id exists,
\* at most one resolves and the other fails with duplicate-record
C37_AtMostOneCreate ==
  \A p, q \in Callers :
    SameIdCreates(p, q) =>
      /\ ~(inflight[p].result = "ok" /\ inflight[q].result = "ok")
      /\ "duplicate-record" \in {inflight[p].result, inflight[q].result}

\* ---- a rejected createAll on the local adapter ------------------------------

\* C38: on the local adapter, when createAll rejects with duplicate-record
\* because an entry's explicit id is already stored, no other entry of the
\* batch has been written: the blob is as it was before the call
C38_RejectedBatchWritesNothing ==
  (/\ adapter = "local"
   /\ last.op = "createAll"
   /\ last.result = "duplicate-record"
   /\ \E i \in DOMAIN last.batch :
        /\ ~isEmpty(last.batch[i], "id")
        /\ LocalCheckDuplicateId(last.before, last.batch[i].id))
  => store = last.before

\* ---- onSnapshot listeners of the firestore adapter --------------------------
\* listening is the listener registered by addListener: its filter, the
\* result of its query as the client last saw it (view), the snapshots the
\* client has raised and not yet handed to the callback (queue), the changes
\* committed to matching records since it was added (committed) and the
\* invocations of the listener (calls).  A change carries the serial number
\* w of the write that made it.
ListenerFilters == {Empty, [name |-> "x"]}

ListenedPayloads == {[id |-> i, name |-> "x"] : i \in Ids}

ListenedRemoveOptions == {[softDelete |-> TRUE], [softDelete |-> FALSE]}

\* a write is made through this client or through another one
Origins == {"local", "remote"}

ChangeTypes == {"added", "modified", "removed"}

\* the documents of createQuery(collection, filter, undefined)
QueryResult(s, filter) ==
  {s[i] : i \in {j \in DOMAIN s :
                   FirestoreCreateQuery(s[j].doc, filter, Undefined)}}

\* snapshot.docChanges(): what differs between two results of a query
DocChanges(before, after, w) ==
  {[w |-> w, id |-> e.doc.id, type |-> "added"] :
     e \in {a \in after : \A b \in before : b.key # a.key}}
  \cup {[w |-> w, id |-> e.doc.id, type |-> "removed"] :
          e \in {b \in before : \A a \in after : a.key # b.key}}
  \cup {[w |-> w, id |-> e.doc.id, type |-> "modified"] :
          e \in {a \in after : \E b \in before : b.key = a.key /\ b.doc # a.doc}}

\* the records that are not deleted and carry every field of the filter
Matching(s, filter) ==
  {s[i] : i \in {j \in DOMAIN s :
                   /\ ~(Has(s[j].doc, "deleted") /\ s[j].doc.deleted = TRUE)
                   /\ \A k \in DOMAIN filter :
                        Has(s[j].doc, k) /\ s[j].doc[k] = filter[k]}}

\* addListener: createQuery, then onSnapshot(finalQuery, callback); the
\* client raises a first snapshot with the documents of the query as added
AddListener(filter) ==
  /\ adapter = "firestore"
  /\ ~listening.on
  /\ listening' =
       [on |-> TRUE, filter |-> filter, view |-> QueryResult(store, filter),
        queue |-> <<[empty |-> QueryResult(store, filter) = {},
                     hasPendingWrites |-> FALSE,
                     changes |-> DocChanges({}, QueryResult(store, filter), 0)]>>,
        committed |-> {}, calls |-> {}]
  /\ UNCHANGED <<adapter, store, now, generated, steps, last, tx, inflight,
                 statics, mirror>>

\* a write is committed.  When it changes the result of the listener's
\* query the client raises a snapshot: with hasPendingWrites when the write
\* was made through this client (the later acknowledgement changes metadata
\* only and raises nothing: onSnapshot is called without
\* includeMetadataChanges), without when it came from another client
Written(origin, outcome) ==
  /\ adapter = "firestore"
  /\ steps < MaxOps
  /\ store' = outcome.store
  /\ now' = now + 1
  /\ steps' = steps + 1
  /\ listening' =
       IF ~listening.on THEN listening
       ELSE LET result == QueryResult(outcome.store, listening.filter)
                changes == DocChanges(listening.view, result, steps + 1)
            IN [listening EXCEPT
                  !.view = result,
                  !.queue = IF changes = {} THEN @
                            ELSE Append(@, [empty |-> result = {},
                                            hasPendingWrites |-> origin = "local",
                                            changes |-> changes]),
                  !.committed =
                     @ \cup DocChanges(Matching(store, listening.filter),
                                       Matching(outcome.store, listening.filter),
                                       steps + 1)]
  /\ UNCHANGED <<adapter, generated, last, tx, inflight, statics, mirror>>

ListenedCreate ==
  \E origin \in Origins, payload \in ListenedPayloads :
    Written(origin, FirestoreCreate(store, payload, generated, now))

ListenedUpdate ==
  \E origin \in Origins, id \in Ids, payload \in ConcurrentPartials :
    Written(origin, FirestoreUpdate(store, id, payload, Undefined, now))

ListenedRemove ==
  \E origin \in Origins, id \in Ids, options \in ListenedRemoveOptions :
    Written(origin, FirestoreRemove(store, id, options, now))

\* the callback addListener hands to onSnapshot, run on the next snapshot
OnSnapshot ==
  /\ listening.on
  /\ listening.queue # <<>>
  /\ LET snapshot == Head(listening.queue)
     IN listening' =
          [listening EXCEPT
             !.queue = Tail(@),
             !.calls = IF ~snapshot.empty /\ ~snapshot.hasPendingWrites
                       THEN @ \cup {[w |-> c.w, id |-> c.id, type |-> c.type,
                                     hasPendingWrites |-> snapshot.hasPendingWrites] :
                                      c \in snapshot.changes}
                       ELSE @]
  /\ UNCHANGED <<adapter, store, now, generated, steps, last, tx, inflight,
                 statics, mirror>>

ListenerNext ==
  \/ \E filter \in ListenerFilters : AddListener(filter)
  \/ ListenedCreate
  \/ ListenedUpdate
  \/ ListenedRemove
  \/ OnSnapshot

\* the client hands every snapshot it raised to the callback
ListenerSpec == Init /\ [][ListenerNext]_vars /\ WF_vars(OnSnapshot)

\* the listener was invoked for the change
Invoked(w, id, type) ==
  \E c \in listening.calls : c.w = w /\ c.id = id /\ c.type = type

\* C39: after addListener(listener, filter) on the firestore adapter every
\* committed change (added, modified, removed) of a non-deleted record
\* matching the filter leads to an invocation of the listener with that
\* record and the change type, the removal of the last matching record
\* included; a snapshot with pending writes never invokes the listener
C39_ChangesReachListener ==
  /\ [](\A c \in listening.calls : ~c.hasPendingWrites)
  /\ \A w \in 1 .. MaxOps, id \in Ids, type \in ChangeTypes :
       ([w |-> w, id |-> id, type |-> type] \in listening.committed)
         ~> Invoked(w, id, type)

====
